---- MODULE Spec2Model ----
(***************************************************************************)
(* Timeline reads (app/controllers/api/v2/TimelinesController.js,          *)
(* genericTimeline) and the Comment model (create / destroy) of            *)
(* freefeed-server, as one state machine over the store they share.        *)
(***************************************************************************)
EXTENDS Integers, Sequences, FiniteSets, TLC

\* ------------------------------------------------------------- bounds
MaxPosts == 3
MaxLimit == 2
MaxOffset == 1
MaxSubs == 1
MaxBans == 1
MaxComments == 2
MaxFollows == 2

\* ------------------------------------------------------------- constants
DEFAULT_LIMIT == 30
DEFAULT_OFFSET == 0

NULL == "null"
Users == {"luna", "mars", "zeus"}
Viewers == Users \cup {NULL}
PostIds == 1..MaxPosts
CommentIds == 1..MaxComments
Clients == {"k1", "k2"}
ActivityNames == {"Posts", "Comments", "Likes"}
FeedNames == ActivityNames \cup {"RiverOfNews"}
Feeds == Users \X FeedNames
Privacy == {"public", "protected", "private"}
Pairs == {e \in Users \X Users : e[1] # e[2]}
Follows == {S \in SUBSET Pairs : Cardinality(S) <= MaxFollows}

VARIABLES
  privacy,       \* user -> "public" | "protected" | "private"
  subs,          \* set of <<subscriber, target user>>
  bans,          \* set of <<banning user, banned user>>
  groupAdmins,   \* account -> its administrators when it is a group, else {}
  postAuthor,    \* post id -> author, NULL when the post does not exist
  feedPosts,     \* timeline -> set of posts that are members of it
  postUsage,     \* post -> set of timelines the post lists (feedIntIds)
  comments,      \* comment id -> [userId, postId] record, NULL when absent
  postComments,  \* post -> set of comment ids attached to the post
  stats,         \* user -> comments counter of Stats
  published,     \* notifications handed to pubSub
  nextCommentId, \* the id dbAdapter.createComment gives the next comment
  request,       \* the last timeline request (timeline, viewerId, params)
  storeQuery,    \* the last getTimelinePostsIds call and the size of its reply
  response,      \* the last genericTimeline result
  query,         \* ctx.request.query of the request being parsed
  commonParams,  \* what getCommonParams returned for it
  pc,            \* client -> position in Comment.create / Comment.destroy
  self,          \* client -> the Comment object (this) and the handler's locals
  before,        \* client -> the persisted state when its running call began
  lastOp         \* client -> the operations it completed last (history)

storeVars == <<privacy, subs, bans, groupAdmins, postAuthor, feedPosts, postUsage,
               comments, postComments, stats, published, nextCommentId>>
readVars == <<request, storeQuery, response, query, commonParams>>
clientVars == <<pc, self, before, lastOp>>
vars == <<storeVars, readVars, clientVars>>

\* ------------------------------------------------------------- sequences
RECURSIVE SortedDesc(_)
\* the members of a set of post ids, most recent (largest id) first
SortedDesc(S) ==
  IF S = {} THEN <<>>
  ELSE LET m == CHOOSE x \in S : \A y \in S : y <= x
       IN <<m>> \o SortedDesc(S \ {m})

Min(a, b) == IF a <= b THEN a ELSE b
Range(s) == {s[i] : i \in 1..Len(s)}
\* Array.prototype.length = n on an array longer than n
Truncate(s, n) == SubSeq(s, 1, n)

\* ------------------------------------------------------------- social graph
\* User.isPrivate / User.isProtected: the string flags of the privacy setting
isPrivate(u) == IF privacy[u] = "private" THEN "1" ELSE "0"
isProtected(u) == IF privacy[u] \in {"protected", "private"} THEN "1" ELSE "0"

getUserSubscribersIds(ownerId) == {s \in Users : <<s, ownerId>> \in subs}
getUsersBansOrWasBannedBy(viewerId) ==
  {u \in Users : <<viewerId, u>> \in bans \/ <<u, viewerId>> \in bans}
\* every account is a user: no group, no administrators
NoGroups == [u \in Users |-> {}]
isGroup(u) == groupAdmins[u] # {}
getTimelineSubscribersIds(timeline) ==
  IF timeline[2] \in ActivityNames THEN getUserSubscribersIds(timeline[1]) ELSE {}

\* dbAdapter.getSubscriprionsIntIds: the Posts timelines the viewer is
\* subscribed to, and the Comments and Likes timelines of the same users
getSubscriprionsIntIds(viewerId) ==
  LET followed == {u \in Users : <<viewerId, u>> \in subs}
  IN [destinations |-> {<<u, "Posts">> : u \in followed},
      activities |-> {<<u, "Comments">> : u \in followed}
                       \cup {<<u, "Likes">> : u \in followed}]

\* dbAdapter.getUserFriendIds: the users the viewer subscribes to who
\* subscribe back
getUserFriendIds(viewerId) ==
  {u \in Users : <<viewerId, u>> \in subs /\ <<u, viewerId>> \in subs}

\* ------------------------------------------------------------- timeline store
\* dbAdapter.getTimelinePostsIds: the posts of the source timelines, of the
\* activity feeds and of the listed authors, each once, most recent first,
\* `offset` skipped and at most `limit` returned
getTimelinePostsIds(timelineIds, authorsIds, activityFeedIds, limit, offset) ==
  LET all == SortedDesc(UNION {feedPosts[t] : t \in timelineIds \cup activityFeedIds}
                          \cup {p \in PostIds : postAuthor[p] \in authorsIds})
  IN SubSeq(all, offset + 1, Min(Len(all), offset + limit))

\* dbAdapter.getPostsWithStuffByIds: the stored posts among the ids, in order
getPostsWithStuffByIds(postsIds) ==
  SelectSeq(postsIds, LAMBDA p : postAuthor[p] # NULL)

\* ------------------------------------------------------------- genericTimeline
\* the access branch of genericTimeline (lines 209-233)
canViewUserMissingBanCheck(name, viewerId, owner) ==
  IF name \in ActivityNames
  THEN IF viewerId = NULL
       THEN isProtected(owner) = "0"
       ELSE IF viewerId # owner
            THEN IF isPrivate(owner) = "1"
                 THEN viewerId \in getUserSubscribersIds(owner)
                 ELSE owner \notin getUsersBansOrWasBannedBy(viewerId)
            ELSE TRUE
  ELSE TRUE

canViewUserNoPrivateCheck(name, viewerId, owner) ==
  IF name \in ActivityNames
  THEN IF viewerId = NULL
       THEN isProtected(owner) = "0"
       ELSE IF viewerId # owner
            THEN owner \notin getUsersBansOrWasBannedBy(viewerId)
            ELSE TRUE
  ELSE TRUE

canViewUserAnonByPrivate(name, viewerId, owner) ==
  IF name \in ActivityNames
  THEN IF viewerId = NULL
       THEN isPrivate(owner) = "0"
       ELSE IF viewerId # owner
            THEN LET subscribed == IF isPrivate(owner) = "1"
                                   THEN viewerId \in getUserSubscribersIds(owner)
                                   ELSE TRUE
                 IN IF subscribed
                    THEN owner \notin getUsersBansOrWasBannedBy(viewerId)
                    ELSE FALSE
            ELSE TRUE
  ELSE TRUE

canViewUser(name, viewerId, owner) ==
  IF name \in ActivityNames
  THEN IF viewerId = NULL
       THEN isProtected(owner) = "0"
       ELSE IF viewerId # owner
            THEN LET subscribed == IF isPrivate(owner) = "1"
                                   THEN viewerId \in getUserSubscribersIds(owner)
                                   ELSE TRUE
                 IN IF subscribed
                    THEN owner \notin getUsersBansOrWasBannedBy(viewerId)
                    ELSE FALSE
            ELSE TRUE
  ELSE TRUE

\* the limit genericTimeline passes to getTimelinePostsIds (line 253)
storeLimit(limit) == limit + 1

\* isLastPage and the truncation of postsIds (lines 256-260)
isLastPageStrict(postsIds, limit) == Len(postsIds) < limit
isLastPage(postsIds, limit) == Len(postsIds) <= limit

pagePostsIds(postsIds, limit) ==
  IF ~isLastPage(postsIds, limit) THEN Truncate(postsIds, limit) ELSE postsIds

\* the timelines entry of the result (lines 291-294)
timelinesEntryNoOwner(timeline, postsIds, canView) ==
  [id |-> timeline, name |-> timeline[2],
   user |-> IF canView THEN timeline[1] ELSE NULL,
   posts |-> postsIds,
   subscribers |-> IF canView THEN getTimelineSubscribersIds(timeline) ELSE {}]

timelinesEntry(timeline, postsIds, canView) ==
  [id |-> timeline, name |-> timeline[2], user |-> timeline[1],
   posts |-> postsIds,
   subscribers |-> IF canView THEN getTimelineSubscribersIds(timeline) ELSE {}]

HomefeedModes == {"friends-only", "classic", "friends-all-activity"}
HOMEFEED_MODE_FRIENDS_ONLY == "friends-only"
HOMEFEED_MODE_CLASSIC == "classic"
HOMEFEED_MODE_FRIENDS_ALL_ACTIVITY == "friends-all-activity"

\* timelineIds, activityFeedIds and authorsIds of genericTimeline
\* (lines 189-250)
querySourcesStaticRiver(timeline, viewerId, params, config) ==
  LET name == timeline[2]
      withMyPosts == params.withMyPosts /\ name = "MyDiscussions"
      authorsIds == IF withMyPosts THEN {viewerId} ELSE {}
  IN IF name = "MyDiscussions"
     THEN [timelineIds |-> {<<timeline[1], "Comments">>, <<timeline[1], "Likes">>},
           activityFeedIds |-> {}, authorsIds |-> authorsIds]
     ELSE [timelineIds |-> {timeline}, activityFeedIds |-> {},
           authorsIds |-> authorsIds]

querySourcesActivitiesOnly(timeline, viewerId, params, config) ==
  LET name == timeline[2]
      withMyPosts == params.withMyPosts /\ name = "MyDiscussions"
      authorsIds == IF withMyPosts THEN {viewerId} ELSE {}
  IN IF name = "RiverOfNews" /\ config.dynamicRiverOfNews
     THEN [timelineIds |-> {},
           activityFeedIds |-> getSubscriprionsIntIds(viewerId).activities,
           authorsIds |-> authorsIds]
     ELSE querySourcesStaticRiver(timeline, viewerId, params, config)

querySources(timeline, viewerId, params, config) ==
  LET name == timeline[2]
      owner == timeline[1]
      withMyPosts == params.withMyPosts /\ name = "MyDiscussions"
      authorsIds == IF withMyPosts THEN {viewerId} ELSE {}
      own == [timelineIds |-> {timeline}, activityFeedIds |-> {},
              authorsIds |-> authorsIds]
  IN IF name = "MyDiscussions"
     THEN [own EXCEPT !.timelineIds = {<<owner, "Comments">>, <<owner, "Likes">>}]
     ELSE IF name \in ActivityNames
     THEN own
     ELSE IF name = "RiverOfNews" /\ config.dynamicRiverOfNews
     THEN LET ids == getSubscriprionsIntIds(viewerId)
          IN IF params.homefeedMode = HOMEFEED_MODE_FRIENDS_ALL_ACTIVITY
             THEN [timelineIds |-> ids.destinations \cup ids.activities,
                   activityFeedIds |-> {},
                   authorsIds |-> authorsIds \cup getUserFriendIds(viewerId)
                                    \cup {viewerId}]
             ELSE IF params.homefeedMode = HOMEFEED_MODE_CLASSIC
             THEN [timelineIds |-> ids.destinations,
                   activityFeedIds |-> ids.activities, authorsIds |-> authorsIds]
             ELSE [own EXCEPT !.timelineIds = ids.destinations]
     ELSE own

NoQuery == [asked |-> FALSE, timelineIds |-> {}, activityFeedIds |-> {},
            authorsIds |-> {}, limit |-> 0, offset |-> 0, n |-> 0, reply |-> <<>>]
NoRequest == [timeline |-> <<NULL, NULL>>, viewerId |-> NULL, limit |-> 0,
              offset |-> 0, homefeedMode |-> NULL, withMyPosts |-> FALSE,
              dynamicRiverOfNews |-> FALSE]
NoResponse == [timelines |-> [id |-> <<NULL, NULL>>, name |-> NULL, user |-> NULL,
                              posts |-> <<>>, subscribers |-> {}],
               users |-> {}, subscriptions |-> {}, subscribers |-> {},
               admins |-> {}, isLastPage |-> TRUE, posts |-> <<>>, comments |-> {}]

\* genericTimeline up to and including its post id query (lines 173-254)
timelineQuery(timeline, viewerId, params, config) ==
  LET canView == canViewUser(timeline[2], viewerId, timeline[1])
      src == querySources(timeline, viewerId, params, config)
      found == getTimelinePostsIds(src.timelineIds, src.authorsIds,
                                   src.activityFeedIds, storeLimit(params.limit),
                                   params.offset)
  IN IF canView
     THEN [asked |-> TRUE, timelineIds |-> src.timelineIds,
           activityFeedIds |-> src.activityFeedIds, authorsIds |-> src.authorsIds,
           limit |-> storeLimit(params.limit), offset |-> params.offset,
           n |-> Len(found), reply |-> found]
     ELSE NoQuery

\* what getPostsWithStuffByIds returns with a post: the feeds it was posted
\* to and the users who liked it
postDestinations(p) == {<<postAuthor[p], "Posts">>}
postLikes(p) == {u \in Users : p \in feedPosts[<<u, "Likes">>]}

\* the loop over postsWithStuff (lines 262-289): the posts, their comments
\* and destinations, and the ids of the users they refer to
NoDetails == [posts |-> <<>>, comments |-> {}, allDestinations |-> {},
              allUserIds |-> {}]
postsDetails(postsIds) ==
  LET posts == getPostsWithStuffByIds(postsIds)
      shown == Range(posts)
      allComments == {c \in UNION {postComments[p] : p \in shown} :
                        comments[c].userId # NULL}
      allDestinations == UNION {postDestinations(p) : p \in shown}
  IN [posts |-> posts, comments |-> allComments,
      allDestinations |-> allDestinations,
      allUserIds |-> {postAuthor[p] : p \in shown}
                       \cup UNION {postLikes(p) : p \in shown}
                       \cup {comments[c].userId : c \in allComments}
                       \cup {d[1] : d \in allDestinations}]

\* dbAdapter.getGroupsAdministratorsIds: the administrators of the groups
\* among the ids
getGroupsAdministratorsIds(ids) ==
  [g \in {x \in ids : isGroup(x)} |-> groupAdmins[g]]
\* the group administrators genericTimeline collects (line 299)
allGroupAdmins(canView, ids) ==
  IF canView THEN getGroupsAdministratorsIds(ids) ELSE [g \in {} |-> {}]

\* dbAdapter.getUsersStatsAssoc: the counters of the users among the ids
getUsersStatsAssoc(ids) ==
  [u \in ids |-> [posts |-> Cardinality({p \in PostIds : postAuthor[p] = u}),
                  comments |-> stats[u]]]

\* the function userSerializerFunction(allUsersAssoc, allStatsAssoc,
\* allGroupAdmins) returns, applied to the id of an account
serializeUser(id, allStatsAssoc, groupAdminsAssoc) ==
  [id |-> id, type |-> IF isGroup(id) THEN "group" ELSE "user",
   statistics |-> allStatsAssoc[id],
   administrators |-> IF id \in DOMAIN groupAdminsAssoc
                      THEN groupAdminsAssoc[id] ELSE {}]

\* genericTimeline from the timelines entry to its result (lines 291-331)
timelineReturn(req, asked, details) ==
  LET timeline == req.timeline
      canView == asked.asked
      timelines == timelinesEntry(timeline, pagePostsIds(asked.reply, req.limit),
                                  canView)
      allSubscribers == {d[1] : d \in details.allDestinations}
                          \cup {timeline[1]} \cup timelines.subscribers
      collected == details.allUserIds \cup allSubscribers
      admins == allGroupAdmins(canView, collected \cap Users)
      allUserIds == collected \cup UNION {admins[g] : g \in DOMAIN admins}
      \* dbAdapter.getUsersByIdsAssoc: the stored accounts among the ids
      allUsersAssoc == allUserIds \cap Users
      allStatsAssoc == getUsersStatsAssoc(allUsersAssoc)
  IN [timelines |-> timelines,
      users |-> {serializeUser(u, allStatsAssoc, admins) :
                   u \in {x \in allUsersAssoc : ~isGroup(x) \/ x = timeline[1]}},
      subscriptions |-> IF canView THEN details.allDestinations ELSE {},
      subscribers |-> IF canView THEN allSubscribers ELSE {},
      admins |-> IF canView /\ timeline[1] \in DOMAIN admins
                 THEN admins[timeline[1]] ELSE {},
      isLastPage |-> isLastPage(asked.reply, req.limit),
      posts |-> details.posts,
      comments |-> details.comments]

\* genericTimeline from isLastPage to its result (lines 256-331), for the
\* post ids the query returned
timelineResult(req, asked) ==
  timelineReturn(req, asked, postsDetails(pagePostsIds(asked.reply, req.limit)))

timelineRequest(timeline, viewerId, params, config) ==
  [timeline |-> timeline, viewerId |-> viewerId, limit |-> params.limit,
   offset |-> params.offset, homefeedMode |-> params.homefeedMode,
   withMyPosts |-> params.withMyPosts,
   dynamicRiverOfNews |-> timeline[2] = "RiverOfNews" /\ config.dynamicRiverOfNews]

\* genericTimeline(timeline, viewerId, params) served from one store state:
\* the store query it makes and the result it returns
genericTimeline(timeline, viewerId, params, config) ==
  LET req == timelineRequest(timeline, viewerId, params, config)
      asked == timelineQuery(timeline, viewerId, params, config)
  IN /\ request' = req
     /\ storeQuery' = asked
     /\ response' = timelineResult(req, asked)

\* the parameters and configuration a request is served with
Params(limit, offset, homefeedMode, withMyPosts) ==
  [limit |-> limit, offset |-> offset, homefeedMode |-> homefeedMode,
   withMyPosts |-> withMyPosts]
Config(dynamic) == [dynamicRiverOfNews |-> dynamic]
DefaultParams == Params(DEFAULT_LIMIT, DEFAULT_OFFSET, HOMEFEED_MODE_CLASSIC, FALSE)

\* userTimeline(feedName): any viewer reads the feed of targetUser
userTimeline(viewer, targetUser, feedName, params, config) ==
  /\ genericTimeline(<<targetUser, feedName>>, viewer, params, config)
  /\ UNCHANGED <<storeVars, pc, self, before, lastOp, query, commonParams>>

\* ownTimeline(feedName): a user reads their own RiverOfNews or MyDiscussions
ownTimeline(user, feedName, params, config) ==
  /\ genericTimeline(<<user, feedName>>, user, params, config)
  /\ UNCHANGED <<storeVars, pc, self, before, lastOp, query, commonParams>>

\* ------------------------------------------------------------- getCommonParams
MaxQueryLen == 3
MAX_LIMIT == 120
ORD_UPDATED == "bumped"
ORD_CREATED == "created"
DigitChars == {"0", "1", "3"}
Chars == DigitChars \cup {"-", "x"}
DigitVal(c) == IF c = "0" THEN 0 ELSE IF c = "1" THEN 1 ELSE 3

\* a query value is missing or a string, kept as its sequence of characters
Missing == [given |-> FALSE, text |-> <<>>]
Given(text) == [given |-> TRUE, text |-> text]
Texts == UNION {[1..n -> Chars] : n \in 0..MaxQueryLen}
QueryValues == {Missing} \cup {Given(t) : t \in Texts}

NaN == [nan |-> TRUE, value |-> 0]
RECURSIVE parseDigits(_, _, _)
\* the value of the digits of s from position i on, up to the first other
\* character
parseDigits(s, i, acc) ==
  IF i > Len(s) \/ s[i] \notin DigitChars THEN acc
  ELSE parseDigits(s, i + 1, acc * 10 + DigitVal(s[i]))

\* parseInt(v, 10): an optional sign and the digits that follow it; NaN for
\* a missing value and for a string that does not begin that way
parseInt(v) ==
  IF ~v.given THEN NaN
  ELSE LET s == v.text
           neg == Len(s) >= 1 /\ s[1] = "-"
           start == IF neg THEN 2 ELSE 1
       IN IF start > Len(s) \/ s[start] \notin DigitChars THEN NaN
          ELSE [nan |-> FALSE,
                value |-> (IF neg THEN -1 ELSE 1) * parseDigits(s, start, 0)]

\* String.prototype.toLowerCase on the values of with-my-posts
toLowerCase(t) == IF t = "On" THEN "on" ELSE t

\* limit and offset of getCommonParams (lines 138-148)
commonLimitClamped(n) ==
  IF n.nan \/ n.value < 0 THEN DEFAULT_LIMIT
  ELSE IF n.value > MAX_LIMIT THEN MAX_LIMIT ELSE n.value
commonLimit(n) ==
  IF n.nan \/ n.value < 0 \/ n.value > MAX_LIMIT THEN DEFAULT_LIMIT ELSE n.value
commonOffset(n) == IF n.nan \/ n.value < 0 THEN DEFAULT_OFFSET ELSE n.value

NoCtxQuery == [limit |-> Missing, offset |-> Missing, sort |-> NULL,
               homefeedMode |-> NULL, withMyPosts |-> NULL]
NoParams == [parsed |-> FALSE, limit |-> 0, offset |-> 0, sort |-> NULL,
             homefeedMode |-> NULL, withMyPosts |-> FALSE]

\* getCommonParams(ctx) (lines 134-171), with the default sort ORD_UPDATED
getCommonParams(q) ==
  [parsed |-> TRUE,
   limit |-> commonLimit(parseInt(q.limit)),
   offset |-> commonOffset(parseInt(q.offset)),
   sort |-> IF q.sort = ORD_CREATED \/ q.sort = ORD_UPDATED THEN q.sort
            ELSE ORD_UPDATED,
   homefeedMode |-> IF q.homefeedMode \in {HOMEFEED_MODE_FRIENDS_ONLY,
                                          HOMEFEED_MODE_CLASSIC,
                                          HOMEFEED_MODE_FRIENDS_ALL_ACTIVITY}
                    THEN q.homefeedMode ELSE HOMEFEED_MODE_CLASSIC,
   withMyPosts |-> toLowerCase(IF q.withMyPosts = NULL THEN "" ELSE q.withMyPosts)
                     \in {"yes", "true", "1", "on"}]

\* a handler reads the parameters of its request
parseQuery ==
  /\ ~commonParams.parsed
  /\ commonParams' = getCommonParams(query)
  /\ UNCHANGED <<storeVars, request, storeQuery, response, query, clientVars>>

\* ------------------------------------------------------------- Comment
Bodies == {"", "  ", "hi"}
\* String.prototype.trim
trim(b) == IF b = "  " THEN "" ELSE b
\* the body setter (lines 368-373): a missing or empty value becomes ''
setBody(newValue) == IF newValue \in {NULL, ""} THEN "" ELSE trim(newValue)

NoComment == [userId |-> NULL, postId |-> 0, body |-> ""]
NoSelf == [op |-> "none", id |-> 0, userId |-> NULL, postId |-> 0, body |-> "",
           updatedAt |-> "unset", pending |-> {}, details |-> NoDetails]
NoSnapshot == [taken |-> FALSE, comments |-> <<>>, postComments |-> <<>>,
               feedPosts |-> <<>>, postUsage |-> <<>>, stats |-> <<>>]
NoOp == [kind |-> "none", id |-> 0, userId |-> NULL, postId |-> 0, pre |-> FALSE]
OtherOp == [NoOp EXCEPT !.kind = "other"]

\* what the store holds of comments, memberships and counters
persisted == [taken |-> TRUE, comments |-> comments, postComments |-> postComments,
              feedPosts |-> feedPosts, postUsage |-> postUsage, stats |-> stats]

CommentsTimeline(u) == <<u, "Comments">>
RiverOfNews(u) == <<u, "RiverOfNews">>

\* Comment.prototype.validate (lines 375-387)
validate(c) == c.body # "" /\ c.userId # NULL /\ c.postId # 0

\* the posts a client names in its calls: a stored one and a missing one
CalledPosts == {1, 2}
\* the users who comment: luna, whose subscriber zeus does not follow the
\* author of the post, and mars, the author
Commenters == {"luna", "mars"}

\* new Comment(params).create() up to its first store call (lines 389-401)
createCall(k, u, p, b) ==
  /\ pc[k] \in {"idle", "done", "failed"}
  /\ nextCommentId + Cardinality({j \in Clients : pc[j] = "c_createComment"})
       <= MaxComments
  /\ LET this == [NoSelf EXCEPT !.op = "create", !.userId = u, !.postId = p,
                                !.body = setBody(b), !.updatedAt = "now"]
     IN /\ self' = [self EXCEPT ![k] = this]
        /\ pc' = [pc EXCEPT ![k] = IF validate(this) THEN "c_createComment"
                                                      ELSE "failed"]
  /\ UNCHANGED <<storeVars, readVars>>

\* this.id = await dbAdapter.createComment(payload) (line 403)
createComment(k) ==
  /\ pc[k] = "c_createComment"
  /\ comments' = [comments EXCEPT ![nextCommentId] =
                    [userId |-> self[k].userId, postId |-> self[k].postId,
                     body |-> self[k].body]]
  /\ nextCommentId' = nextCommentId + 1
  /\ self' = [self EXCEPT ![k].id = nextCommentId]
  /\ pc' = [pc EXCEPT ![k] = "c_findById"]
  /\ UNCHANGED <<privacy, groupAdmins,
                 subs, bans, postAuthor, feedPosts, postUsage,
                 postComments, stats, published, readVars>>

\* let post = await Post.findById(this.postId) (line 405); post.addComment
\* of a post that was not found throws
createFindByIdWithoutAddComment(k) ==
  /\ pc[k] = "c_findById"
  /\ pc' = [pc EXCEPT ![k] = IF postAuthor[self[k].postId] = NULL
                              THEN "failed" ELSE "c_stats"]
  /\ UNCHANGED <<storeVars, readVars, self>>

createFindById(k) ==
  /\ pc[k] = "c_findById"
  /\ pc' = [pc EXCEPT ![k] = IF postAuthor[self[k].postId] = NULL
                              THEN "failed" ELSE "c_addComment"]
  /\ UNCHANGED <<storeVars, readVars, self>>

\* Post.prototype.addComment: the timelines a comment of u on p fans into
addCommentTimelines(u, p) ==
  {CommentsTimeline(u)} \cup
  {RiverOfNews(s) : s \in {x \in getUserSubscribersIds(u) :
      /\ x \notin getUsersBansOrWasBannedBy(u)
      /\ x \notin getUsersBansOrWasBannedBy(postAuthor[p])}}

\* let timelines = await post.addComment(this) (line 406)
createAddComment(k) ==
  /\ pc[k] = "c_addComment"
  /\ LET p == self[k].postId
         ts == addCommentTimelines(self[k].userId, p)
     IN /\ postComments' = [postComments EXCEPT ![p] = @ \cup {self[k].id}]
        /\ feedPosts' = [f \in Feeds |-> IF f \in ts THEN feedPosts[f] \cup {p}
                                         ELSE feedPosts[f]]
        /\ postUsage' = [postUsage EXCEPT ![p] = @ \cup ts]
  /\ pc' = [pc EXCEPT ![k] = "c_stats"]
  /\ UNCHANGED <<privacy, groupAdmins,
                 subs, bans, postAuthor, comments, stats, published,
                 nextCommentId, readVars, self>>

\* Stats.addComment / Stats.removeComment: the comments counter of a user
statsAddComment(n) == n + 1
statsRemoveComment(n) == n - 1

\* let stats = await Stats.findById(this.userId); await stats.addComment();
\* return timelines (lines 408-411)
createStats(k) ==
  /\ pc[k] = "c_stats"
  /\ stats' = [stats EXCEPT ![self[k].userId] = statsAddComment(@)]
  /\ pc' = [pc EXCEPT ![k] = "done"]
  /\ UNCHANGED <<privacy, groupAdmins,
                 subs, bans, postAuthor, feedPosts, postUsage, comments,
                 postComments, published, nextCommentId, readVars, self>>

\* comment.destroy() of a loaded comment, up to the first store call:
\* await pubSub.destroyComment(this.id, this.postId) (line 436)
destroyCall(k, c) ==
  /\ pc[k] \in {"idle", "done", "failed"}
  /\ comments[c] # NoComment
  /\ self' = [self EXCEPT ![k] = [NoSelf EXCEPT !.op = "destroy", !.id = c,
                                     !.userId = comments[c].userId,
                                     !.postId = comments[c].postId,
                                     !.body = comments[c].body,
                                     !.updatedAt = "stored"]]
  /\ published' = published \cup {<<"destroyComment", c>>}
  /\ pc' = [pc EXCEPT ![k] = "d_deleteComment"]
  /\ UNCHANGED <<privacy, groupAdmins,
                 subs, bans, postAuthor, feedPosts, postUsage, comments,
                 postComments, stats, nextCommentId, readVars>>

\* await dbAdapter.deleteComment(this.id) (line 437)
destroyDeleteComment(k) ==
  /\ pc[k] = "d_deleteComment"
  /\ comments' = [comments EXCEPT ![self[k].id] = NoComment]
  /\ pc' = [pc EXCEPT ![k] = "d_removeCommentFromPost"]
  /\ UNCHANGED <<privacy, groupAdmins,
                 subs, bans, postAuthor, feedPosts, postUsage,
                 postComments, stats, published, nextCommentId, readVars, self>>

\* await dbAdapter.removeCommentFromPost(this.postId, this.id) (line 438)
destroyRemoveCommentFromPost(k) ==
  /\ pc[k] = "d_removeCommentFromPost"
  /\ postComments' = [postComments EXCEPT ![self[k].postId] = @ \ {self[k].id}]
  /\ pc' = [pc EXCEPT ![k] = "d_getComments"]
  /\ UNCHANGED <<privacy, groupAdmins,
                 subs, bans, postAuthor, feedPosts, postUsage, comments,
                 stats, published, nextCommentId, readVars, self>>

\* _.any(comments, 'userId', this.userId) over post.getComments() (line 445)
anyOwnCommentNever(u, p) == FALSE
anyOwnComment(u, p) == \E c \in postComments[p] : comments[c].userId = u

\* Post.findById, post.getComments and the early return (lines 442-450);
\* getComments of a post that was not found throws
destroyGetComments(k) ==
  /\ pc[k] = "d_getComments"
  /\ IF postAuthor[self[k].postId] = NULL
     THEN pc' = [pc EXCEPT ![k] = "failed"] /\ UNCHANGED self
     ELSE IF anyOwnComment(self[k].userId, self[k].postId)
          THEN pc' = [pc EXCEPT ![k] = "done"] /\ UNCHANGED self
          ELSE /\ pc' = [pc EXCEPT ![k] = "d_removeBoth"]
               /\ self' = [self EXCEPT ![k].pending = {"timeline", "usage"}]
  /\ UNCHANGED <<storeVars, readVars>>

\* the two removals of Promise.all (lines 452-455), in either order
destroyRemoveDone(k, left) ==
  /\ self' = [self EXCEPT ![k].pending = left]
  /\ pc' = [pc EXCEPT ![k] = IF left = {} THEN "d_stats" ELSE "d_removeBoth"]

\* dbAdapter.removePostFromTimeline(timelineId, this.postId) (line 453)
removePostFromTimeline(k) ==
  /\ pc[k] = "d_removeBoth"
  /\ "timeline" \in self[k].pending
  /\ feedPosts' = [feedPosts EXCEPT ![CommentsTimeline(self[k].userId)] =
                     @ \ {self[k].postId}]
  /\ destroyRemoveDone(k, self[k].pending \ {"timeline"})
  /\ UNCHANGED <<privacy, groupAdmins,
                 subs, bans, postAuthor, postUsage, comments,
                 postComments, stats, published, nextCommentId, readVars>>

\* dbAdapter.deletePostUsageInTimeline(this.postId, timelineId) (line 454)
deletePostUsageInTimeline(k) ==
  /\ pc[k] = "d_removeBoth"
  /\ "usage" \in self[k].pending
  /\ postUsage' = [postUsage EXCEPT ![self[k].postId] =
                     @ \ {CommentsTimeline(self[k].userId)}]
  /\ destroyRemoveDone(k, self[k].pending \ {"usage"})
  /\ UNCHANGED <<privacy, groupAdmins,
                 subs, bans, postAuthor, feedPosts, comments,
                 postComments, stats, published, nextCommentId, readVars>>

\* let stats = await Stats.findById(this.userId); let res = await
\* stats.removeComment(); return res (lines 457-459)
destroyStats(k) ==
  /\ pc[k] = "d_stats"
  /\ stats' = [stats EXCEPT ![self[k].userId] = statsRemoveComment(@)]
  /\ pc' = [pc EXCEPT ![k] = "done"]
  /\ UNCHANGED <<privacy, groupAdmins,
                 subs, bans, postAuthor, feedPosts, postUsage, comments,
                 postComments, published, nextCommentId, readVars, self>>

\* comment.update(params) of a loaded comment up to its first store call
\* (lines 414-418): updatedAt and body are assigned, then validate() runs
updateCall(k, c, b) ==
  /\ pc[k] \in {"idle", "done", "failed"}
  /\ comments[c] # NoComment
  /\ LET this == [NoSelf EXCEPT !.op = "update", !.id = c,
                                !.userId = comments[c].userId,
                                !.postId = comments[c].postId,
                                !.body = setBody(b), !.updatedAt = "now"]
     IN /\ self' = [self EXCEPT ![k] = this]
        /\ pc' = [pc EXCEPT ![k] = IF validate(this) THEN "u_updateComment"
                                                      ELSE "failed"]
  /\ UNCHANGED <<storeVars, readVars>>

\* await dbAdapter.updateComment(this.id, payload) (lines 420-424)
updateComment(k) ==
  /\ pc[k] = "u_updateComment"
  /\ comments' = [comments EXCEPT ![self[k].id] =
                    IF @ = NoComment THEN @ ELSE [@ EXCEPT !.body = self[k].body]]
  /\ pc' = [pc EXCEPT ![k] = "u_publish"]
  /\ UNCHANGED <<privacy, groupAdmins,
                 subs, bans, postAuthor, feedPosts, postUsage,
                 postComments, stats, published, nextCommentId, readVars, self>>

\* await pubSub.updateComment(this.id); return this (lines 426-428)
updatePublish(k) ==
  /\ pc[k] = "u_publish"
  /\ published' = published \cup {<<"updateComment", self[k].id>>}
  /\ pc' = [pc EXCEPT ![k] = "done"]
  /\ UNCHANGED <<privacy, groupAdmins,
                 subs, bans, postAuthor, feedPosts, postUsage, comments,
                 postComments, stats, nextCommentId, readVars, self>>

\* genericTimeline as the steps its awaits cut it into; the store may change
\* between them. First step: up to the post id query (lines 173-254)
readQuery(k, timeline, viewerId, params, config) ==
  /\ pc[k] = "idle"
  /\ request = NoRequest
  /\ request' = timelineRequest(timeline, viewerId, params, config)
  /\ storeQuery' = timelineQuery(timeline, viewerId, params, config)
  /\ self' = [self EXCEPT ![k] = [NoSelf EXCEPT !.op = "read"]]
  /\ pc' = [pc EXCEPT ![k] = "r_details"]
  /\ UNCHANGED <<storeVars, response, query, commonParams>>

\* isLastPage, the truncation and dbAdapter.getPostsWithStuffByIds
\* (lines 256-289)
readDetails(k) ==
  /\ pc[k] = "r_details"
  /\ LET details == postsDetails(pagePostsIds(storeQuery.reply, request.limit))
     IN /\ self' = [self EXCEPT ![k].details = details]
        /\ response' = [NoResponse EXCEPT
                          !.posts = details.posts,
                          !.comments = details.comments,
                          !.isLastPage = isLastPage(storeQuery.reply, request.limit)]
  /\ pc' = [pc EXCEPT ![k] = "r_subscribers"]
  /\ UNCHANGED <<storeVars, request, storeQuery, query, commonParams>>

\* the timelines entry with dbAdapter.getTimelineSubscribersIds, the users
\* and the result (lines 291-331)
readReturn(k) ==
  /\ pc[k] = "r_subscribers"
  /\ response' = timelineReturn(request, storeQuery, self[k].details)
  /\ pc' = [pc EXCEPT ![k] = "done"]
  /\ UNCHANGED <<storeVars, request, storeQuery, query, commonParams, self>>

\* a store call of the handler rejects: the handler throws where it stands,
\* what it wrote before stays written
storeCallFails(k) ==
  /\ pc[k] \in {"c_createComment", "c_findById", "c_addComment", "c_stats",
                "d_deleteComment", "d_removeCommentFromPost", "d_getComments",
                "d_stats"}
  /\ pc' = [pc EXCEPT ![k] = "failed"]
  /\ UNCHANGED <<storeVars, readVars, self>>

\* one of the two removals of Promise.all rejects; the other one was issued
\* with it and is still applied
removalFails(k, which) ==
  /\ pc[k] = "d_removeBoth"
  /\ which \in self[k].pending
  /\ LET other == self[k].pending \ {which}
     IN /\ feedPosts' = IF "timeline" \in other
                        THEN [feedPosts EXCEPT ![CommentsTimeline(self[k].userId)] =
                                @ \ {self[k].postId}]
                        ELSE feedPosts
        /\ postUsage' = IF "usage" \in other
                        THEN [postUsage EXCEPT ![self[k].postId] =
                                @ \ {CommentsTimeline(self[k].userId)}]
                        ELSE postUsage
  /\ self' = [self EXCEPT ![k].pending = {}]
  /\ pc' = [pc EXCEPT ![k] = "failed"]
  /\ UNCHANGED <<privacy, groupAdmins,
                 subs, bans, postAuthor, comments, postComments, stats,
                 published, nextCommentId, readVars>>

\* ------------------------------------------------------------- initial stores
NoClients == /\ pc = [k \in Clients |-> "idle"]
             /\ self = [k \in Clients |-> NoSelf]
             /\ before = [k \in Clients |-> NoSnapshot]
             /\ lastOp = [k \in Clients |-> NoOp]
\* a step of a specification that keeps no history
noRecord == UNCHANGED <<before, lastOp>>
NoReads == /\ request = NoRequest
           /\ storeQuery = NoQuery
           /\ response = NoResponse
           /\ query = NoCtxQuery
           /\ commonParams = NoParams

\* posts 1..n exist, written by `author`; every user has commented on and
\* liked the posts of the others
StoreWithPosts(author, n) ==
  /\ groupAdmins = NoGroups
  /\ postAuthor = [p \in PostIds |-> IF p <= n THEN author ELSE NULL]
  /\ feedPosts = [f \in Feeds |->
                    IF f[2] = "Posts" /\ f[1] = author THEN 1..n
                    ELSE IF f[2] \in {"Comments", "Likes"} /\ f[1] # author THEN 1..n
                    ELSE {}]
  /\ postUsage = [p \in PostIds |-> {f \in Feeds : p \in feedPosts[f]}]
  /\ comments = [c \in CommentIds |-> NoComment]
  /\ postComments = [p \in PostIds |-> {}]
  /\ stats = [u \in Users |-> 0]
  /\ published = {}
  /\ nextCommentId = 1

\* ------------------------------------------------------------- fan-out
PostsTimeline(u) == <<u, "Posts">>
LikesTimeline(u) == <<u, "Likes">>
\* the subscribers of u whom no ban relation with u or with `author` excludes
fanoutSubscribers(u, author) ==
  {x \in getUserSubscribersIds(u) :
     /\ x \notin getUsersBansOrWasBannedBy(u)
     /\ x \notin getUsersBansOrWasBannedBy(author)}

\* Post.prototype.create: the destinations of a new post of `author`
postCreateTimelines(author) ==
  {PostsTimeline(author), RiverOfNews(author)}
    \cup {RiverOfNews(x) : x \in fanoutSubscribers(author, author)}

\* Post.prototype.addLike: the timelines a like of u on p fans into
addLikeTimelines(u, p) ==
  {LikesTimeline(u)}
    \cup {RiverOfNews(x) : x \in fanoutSubscribers(u, postAuthor[p])}

\* post.create() of a new post of `author`: the post is stored and becomes a
\* member of its destinations
postCreate(author) ==
  /\ \E p \in PostIds :
       /\ postAuthor[p] = NULL
       /\ \A q \in PostIds : q < p => postAuthor[q] # NULL
       /\ postAuthor' = [postAuthor EXCEPT ![p] = author]
       /\ feedPosts' = [f \in Feeds |->
                          IF f \in postCreateTimelines(author)
                          THEN feedPosts[f] \cup {p} ELSE feedPosts[f]]
       /\ postUsage' = [postUsage EXCEPT ![p] = postCreateTimelines(author)]
  /\ UNCHANGED <<privacy, groupAdmins,
                 subs, bans, comments, postComments, stats, published,
                 nextCommentId, readVars, clientVars>>

\* the posts a new subscriber of the Posts timeline of `target` receives
subscribeToNoPosts(target) == {}
subscribeToPosts(target) == feedPosts[PostsTimeline(target)]

\* user.subscribeTo(timelineId) of the Posts timeline of `target`: the
\* posts of that timeline are copied to the RiverOfNews of `user`
subscribeTo(user, target) ==
  /\ <<user, target>> \in Pairs \ subs
  /\ Cardinality(subs) < MaxFollows
  /\ subs' = subs \cup {<<user, target>>}
  /\ feedPosts' = [feedPosts EXCEPT ![RiverOfNews(user)] =
                     @ \cup subscribeToPosts(target)]
  /\ postUsage' = [p \in PostIds |->
                     IF p \in subscribeToPosts(target)
                     THEN postUsage[p] \cup {RiverOfNews(user)} ELSE postUsage[p]]
  /\ UNCHANGED <<privacy, groupAdmins,
                 bans, postAuthor, comments, postComments, stats,
                 published, nextCommentId, readVars, clientVars>>

\* post.addLike(userId): the post becomes a member of the timelines the like
\* fans into; a second like of the same user is rejected
addLike(u, p) ==
  /\ postAuthor[p] # NULL
  /\ p \notin feedPosts[LikesTimeline(u)]
  /\ feedPosts' = [f \in Feeds |->
                     IF f \in addLikeTimelines(u, p)
                     THEN feedPosts[f] \cup {p} ELSE feedPosts[f]]
  /\ postUsage' = [postUsage EXCEPT ![p] = @ \cup addLikeTimelines(u, p)]
  /\ UNCHANGED <<privacy, groupAdmins,
                 subs, bans, postAuthor, comments, postComments, stats,
                 published, nextCommentId, readVars, clientVars>>

\* post.destroy(): the post, its comments and all its timeline memberships
\* are removed
postDestroy(p) ==
  /\ postAuthor[p] # NULL
  /\ postAuthor' = [postAuthor EXCEPT ![p] = NULL]
  /\ feedPosts' = [f \in Feeds |-> feedPosts[f] \ {p}]
  /\ postUsage' = [postUsage EXCEPT ![p] = {}]
  /\ comments' = [c \in CommentIds |->
                    IF c \in postComments[p] THEN NoComment ELSE comments[c]]
  /\ postComments' = [postComments EXCEPT ![p] = {}]
  /\ UNCHANGED <<privacy, groupAdmins,
                 subs, bans, stats, published, nextCommentId, readVars,
                 clientVars>>

\* the store after mars wrote post 1 and the users in `likers` liked it,
\* for the subscriptions and bans of the state
FanoutStore(likers) ==
  /\ groupAdmins = NoGroups
  /\ postAuthor = [p \in PostIds |-> IF p = 1 THEN "mars" ELSE NULL]
  /\ feedPosts = [f \in Feeds |->
                    IF f \in postCreateTimelines("mars")
                              \cup UNION {addLikeTimelines(u, 1) : u \in likers}
                    THEN {1} ELSE {}]
  /\ postUsage = [p \in PostIds |-> {f \in Feeds : p \in feedPosts[f]}]
  /\ comments = [c \in CommentIds |-> NoComment]
  /\ postComments = [p \in PostIds |-> {}]
  /\ stats = [u \in Users |-> 0]
  /\ published = {}
  /\ nextCommentId = 1

\* ------------------------------------------------------------- posts and subscriptions
InitPosts ==
  /\ privacy = [u \in Users |-> "public"]
  /\ subs = {}
  /\ bans = {}
  /\ StoreWithPosts("mars", 0)
  /\ NoReads
  /\ NoClients

NextPosts ==
  \/ \E author \in Users : postCreate(author)
  \/ \E user \in Users, target \in Users : subscribeTo(user, target)
SpecPosts == InitPosts /\ [][NextPosts]_vars

\* ------------------------------------------------------------- comments and likes
\* a ban relation ends the subscriptions between the two users
NoBannedFollows ==
  \A e \in subs : <<e[1], e[2]>> \notin bans /\ <<e[2], e[1]>> \notin bans

InitFanout ==
  /\ privacy = [u \in Users |-> "public"]
  /\ subs \in Follows
  /\ bans \in {S \in SUBSET Pairs : Cardinality(S) <= MaxBans}
  /\ NoBannedFollows
  /\ FanoutStore({})
  /\ NoReads
  /\ NoClients

\* users like and comment (with a valid body) the stored posts
ValidBodies == {b \in Bodies : setBody(b) # ""}
StoredPosts == {p \in CalledPosts : postAuthor[p] # NULL}
NextFanout ==
  \/ \E u \in Users, p \in StoredPosts : addLike(u, p)
  \/ \E u \in Commenters, p \in StoredPosts, b \in ValidBodies :
       createCall("k1", u, p, b) /\ noRecord
  \/ createComment("k1") /\ noRecord
  \/ createFindById("k1") /\ noRecord
  \/ createAddComment("k1") /\ noRecord
  \/ createStats("k1") /\ noRecord
SpecFanout == InitFanout /\ [][NextFanout]_vars

\* ------------------------------------------------------------- home feed reads
InitHome ==
  /\ privacy = [u \in Users |-> "public"]
  /\ subs \in Follows
  /\ bans = {}
  /\ \E likers \in SUBSET Users : FanoutStore(likers)
  /\ NoReads
  /\ NoClients

\* one request is served from each store state: a user's own RiverOfNews or
\* MyDiscussions, or a Posts, Comments or Likes timeline of any user
NextHome ==
  \/ /\ request = NoRequest
     /\ \E user \in Users, feedName \in {"RiverOfNews", "MyDiscussions"},
           homefeedMode \in HomefeedModes, withMyPosts \in BOOLEAN,
           dynamic \in BOOLEAN :
          ownTimeline(user, feedName,
                      Params(DEFAULT_LIMIT, DEFAULT_OFFSET, homefeedMode, withMyPosts),
                      Config(dynamic))
  \/ /\ request = NoRequest
     /\ \E viewer \in Viewers, targetUser \in Users, feedName \in ActivityNames,
           homefeedMode \in HomefeedModes, withMyPosts \in BOOLEAN,
           dynamic \in BOOLEAN :
          userTimeline(viewer, targetUser, feedName,
                       Params(DEFAULT_LIMIT, DEFAULT_OFFSET, homefeedMode, withMyPosts),
                       Config(dynamic))
SpecHome == InitHome /\ [][NextHome]_vars

\* ------------------------------------------------------------- repeated reads
\* every owner is private, so that a viewer who does not subscribe is
\* denied; zeus is a user, or a group that luna or mars administers
GroupStores ==
  {NoGroups} \cup {[NoGroups EXCEPT !["zeus"] = {a}] : a \in {"luna", "mars"}}
People == {u \in Users : ~isGroup(u)}

InitDenied ==
  /\ privacy = [u \in Users |-> "private"]
  /\ subs = {}
  /\ bans = {}
  /\ groupAdmins \in GroupStores
  /\ postAuthor = [p \in PostIds |-> NULL]
  /\ feedPosts = [f \in Feeds |-> {}]
  /\ postUsage = [p \in PostIds |-> {}]
  /\ comments = [c \in CommentIds |-> NoComment]
  /\ postComments = [p \in PostIds |-> {}]
  /\ stats = [u \in Users |-> 0]
  /\ published = {}
  /\ nextCommentId = 1
  /\ NoReads
  /\ NoClients

\* users post and subscribe, and any viewer reads the Posts timeline of any
\* account, any number of times
NextDenied ==
  \/ \E author \in People : postCreate(author)
  \/ \E user \in People, target \in Users : subscribeTo(user, target)
  \/ \E viewer \in People \cup {NULL}, targetUser \in Users, dynamic \in BOOLEAN :
       userTimeline(viewer, targetUser, "Posts", DefaultParams, Config(dynamic))
SpecDenied == InitDenied /\ [][NextDenied]_vars

\* ------------------------------------------------------------- bestOf
\* parseInt(value, 10) || byDefault: NaN and 0 are falsy
orDefault(n, byDefault) == IF n.nan \/ n.value = 0 THEN byDefault ELSE n.value

\* dbAdapter.bestPosts(user, offset, limit): the stored posts, most recent
\* first, `offset` skipped and at most `limit` returned; what a store does
\* with a negative offset or limit is its own: it rejects the query, or it
\* takes the negative number as 0
Rejected == [ok |-> FALSE, posts |-> <<>>]
bestPosts(offset, limit) ==
  LET all == SortedDesc({p \in PostIds : postAuthor[p] # NULL})
      from == IF offset < 0 THEN 0 ELSE offset
      upTo == IF limit < 0 THEN 0 ELSE limit
      found == [ok |-> TRUE,
                posts |-> SubSeq(all, from + 1, Min(Len(all), from + upTo))]
  IN IF offset < 0 \/ limit < 0 THEN {Rejected, found} ELSE {found}

\* the bestOf handler (lines 41-62); Array.prototype.length = n throws a
\* RangeError for a negative n
bestOf(k) ==
  /\ pc[k] = "idle"
  /\ request = NoRequest
  /\ LET offset == orDefault(parseInt(query.offset), DEFAULT_OFFSET)
         limit == orDefault(parseInt(query.limit), DEFAULT_LIMIT)
     IN /\ request' = [NoRequest EXCEPT !.timeline = <<NULL, "bestof">>,
                                        !.limit = limit, !.offset = offset]
        /\ \E foundPosts \in bestPosts(offset, limit + 1) :
             LET last == Len(foundPosts.posts) <= limit
                 thrown == ~foundPosts.ok \/ (~last /\ limit < 0)
             IN /\ storeQuery' = [NoQuery EXCEPT !.asked = TRUE,
                                                !.limit = limit + 1,
                                                !.offset = offset,
                                                !.n = Len(foundPosts.posts),
                                                !.reply = foundPosts.posts]
                /\ response' = IF thrown THEN NoResponse
                               ELSE [NoResponse EXCEPT
                                       !.posts = IF ~last
                                                 THEN Truncate(foundPosts.posts, limit)
                                                 ELSE foundPosts.posts,
                                       !.isLastPage = last]
                /\ pc' = [pc EXCEPT ![k] = IF thrown THEN "failed" ELSE "done"]
  /\ self' = [self EXCEPT ![k] = [NoSelf EXCEPT !.op = "bestOf"]]
  /\ UNCHANGED <<storeVars, query, commonParams, before, lastOp>>

\* the queries of the best-of requests: any text as limit, as offset or as
\* both
BestQueries ==
  {[NoCtxQuery EXCEPT !.limit = v[1], !.offset = v[2]] :
     v \in UNION {{<<t, Missing>>, <<Missing, t>>, <<t, t>>} : t \in QueryValues}}

InitBest ==
  /\ privacy = [u \in Users |-> "public"]
  /\ subs = {}
  /\ bans = {}
  /\ \E n \in 0..MaxPosts : StoreWithPosts("mars", n)
  /\ request = NoRequest
  /\ storeQuery = NoQuery
  /\ response = NoResponse
  /\ query \in BestQueries
  /\ commonParams = NoParams
  /\ NoClients

NextBest == bestOf("k1")
SpecBest == InitBest /\ [][NextBest]_vars

\* ------------------------------------------------------------- parameters
\* the queries of the requests: any text as limit, as offset or as both,
\* with known, unknown and missing values of the other parameters
Queries ==
  {[limit |-> v[1], offset |-> v[2], sort |-> srt, homefeedMode |-> m,
    withMyPosts |-> w] :
     v \in UNION {{<<t, Missing>>, <<Missing, t>>, <<t, t>>} : t \in QueryValues},
     srt \in {NULL, ORD_CREATED, ORD_UPDATED, "updated"},
     m \in HomefeedModes \cup {NULL, "unknown"},
     w \in {NULL, "On", "no"}}

InitParams ==
  /\ privacy = [u \in Users |-> "public"]
  /\ subs = {}
  /\ bans = {}
  /\ StoreWithPosts("mars", 1)
  /\ request = NoRequest
  /\ storeQuery = NoQuery
  /\ response = NoResponse
  /\ query \in Queries
  /\ commonParams = NoParams
  /\ NoClients

NextParams == parseQuery
SpecParams == InitParams /\ [][NextParams]_vars

\* ------------------------------------------------------------- access reads
InitAccess ==
  /\ privacy \in [Users -> Privacy]
  /\ subs \in {S \in SUBSET Pairs : Cardinality(S) <= MaxSubs}
  /\ bans \in {S \in SUBSET Pairs : Cardinality(S) <= MaxBans}
  /\ StoreWithPosts("mars", 1)
  /\ NoReads
  /\ NoClients

\* one request is served from each store state
NextAccess ==
  /\ request = NoRequest
  /\ \E viewer \in Viewers, targetUser \in Users, feedName \in ActivityNames,
        dynamic \in BOOLEAN :
    userTimeline(viewer, targetUser, feedName, DefaultParams, Config(dynamic))

SpecAccess == InitAccess /\ [][NextAccess]_vars

\* ------------------------------------------------------------- paged reads
InitPage ==
  /\ privacy \in [Users -> {"public"}]
  /\ subs = {}
  /\ bans = {}
  /\ \E author \in Users, n \in 0..MaxPosts : StoreWithPosts(author, n)
  /\ NoReads
  /\ NoClients

NextPage ==
  /\ request = NoRequest
  /\ \E viewer \in Viewers, targetUser \in Users, feedName \in ActivityNames,
     limit \in 0..MaxLimit, offset \in 0..MaxOffset, dynamic \in BOOLEAN :
    userTimeline(viewer, targetUser, feedName,
                 Params(limit, offset, HOMEFEED_MODE_CLASSIC, FALSE),
                 Config(dynamic))

SpecPage == InitPage /\ [][NextPage]_vars

\* ------------------------------------------------------------- comments
\* the users and the post of test/unit/post.js, #addComment(): luna follows
\* mars, zeus follows luna, mars wrote post 1
InitComment ==
  /\ privacy = [u \in Users |-> "public"]
  /\ groupAdmins = NoGroups
  /\ subs = {<<"luna", "mars">>, <<"zeus", "luna">>}
  /\ bans = {}
  /\ postAuthor = [p \in PostIds |-> IF p = 1 THEN "mars" ELSE NULL]
  /\ feedPosts = [f \in Feeds |->
                    IF f \in {<<"mars", "Posts">>, RiverOfNews("mars"),
                              RiverOfNews("luna")}
                    THEN {1} ELSE {}]
  /\ postUsage = [p \in PostIds |-> {f \in Feeds : p \in feedPosts[f]}]
  /\ comments = [c \in CommentIds |-> NoComment]
  /\ postComments = [p \in PostIds |-> {}]
  /\ stats = [u \in Users |-> 0]
  /\ published = {}
  /\ nextCommentId = 1
  /\ NoReads
  /\ NoClients

\* history of a client: the persisted state when its call began, and on its
\* return whether it completed a create, or the destroy of the comment its
\* previous call created (a round trip)
recordCall(k) ==
  /\ before' = [before EXCEPT ![k] = persisted]
  /\ lastOp' = [lastOp EXCEPT ![k] = IF pc'[k] = "failed" THEN OtherOp ELSE @]

recordStep(k) ==
  /\ UNCHANGED before
  /\ lastOp' = [lastOp EXCEPT ![k] =
       IF pc'[k] = "failed" THEN OtherOp
       ELSE IF pc'[k] # "done" THEN @
       ELSE IF self[k].op = "create"
            THEN [kind |-> "create", id |-> self[k].id, userId |-> self[k].userId,
                  postId |-> self[k].postId,
                  pre |-> self[k].postId \in
                            before[k].feedPosts[CommentsTimeline(self[k].userId)]]
       ELSE IF @.kind = "create" /\ @.id = self[k].id
            THEN [@ EXCEPT !.kind = "roundtrip"]
            ELSE OtherOp]

\* one client, one call at a time; store calls may fail
NextSeq ==
  \/ \E u \in Commenters, p \in CalledPosts, b \in Bodies :
       createCall("k1", u, p, b) /\ recordCall("k1")
  \/ createComment("k1") /\ recordStep("k1")
  \/ createFindById("k1") /\ recordStep("k1")
  \/ createAddComment("k1") /\ recordStep("k1")
  \/ createStats("k1") /\ recordStep("k1")
  \/ \E c \in CommentIds : destroyCall("k1", c) /\ recordCall("k1")
  \/ destroyDeleteComment("k1") /\ recordStep("k1")
  \/ destroyRemoveCommentFromPost("k1") /\ recordStep("k1")
  \/ destroyGetComments("k1") /\ recordStep("k1")
  \/ removePostFromTimeline("k1") /\ recordStep("k1")
  \/ deletePostUsageInTimeline("k1") /\ recordStep("k1")
  \/ destroyStats("k1") /\ recordStep("k1")
  \/ storeCallFails("k1") /\ recordStep("k1")
  \/ \E which \in {"timeline", "usage"} :
       removalFails("k1", which) /\ recordStep("k1")
SpecSeq == InitComment /\ [][NextSeq]_vars

\* two clients whose handlers interleave at their awaits; no history is kept
NextComment ==
  \/ \E k \in Clients, u \in Commenters, p \in CalledPosts, b \in Bodies :
       createCall(k, u, p, b) /\ noRecord
  \/ \E k \in Clients : createComment(k) /\ noRecord
  \/ \E k \in Clients : createFindById(k) /\ noRecord
  \/ \E k \in Clients : createAddComment(k) /\ noRecord
  \/ \E k \in Clients : createStats(k) /\ noRecord
  \/ \E k \in Clients, c \in CommentIds : destroyCall(k, c) /\ noRecord
  \/ \E k \in Clients : destroyDeleteComment(k) /\ noRecord
  \/ \E k \in Clients : destroyRemoveCommentFromPost(k) /\ noRecord
  \/ \E k \in Clients : destroyGetComments(k) /\ noRecord
  \/ \E k \in Clients : removePostFromTimeline(k) /\ noRecord
  \/ \E k \in Clients : deletePostUsageInTimeline(k) /\ noRecord
  \/ \E k \in Clients : destroyStats(k) /\ noRecord
SpecComment == InitComment /\ [][NextComment]_vars

\* one client creates (with valid and invalid parameters), updates and
\* destroys comments; no store call fails
CreateUsers == Commenters \cup {NULL}
CreatePosts == CalledPosts \cup {0}
Inputs == Bodies \cup {NULL, "yo"}
NextEdit ==
  \/ \E u \in CreateUsers, p \in CreatePosts, b \in Inputs :
       createCall("k1", u, p, b) /\ noRecord
  \/ createComment("k1") /\ noRecord
  \/ createFindById("k1") /\ noRecord
  \/ createAddComment("k1") /\ noRecord
  \/ createStats("k1") /\ noRecord
  \/ \E c \in CommentIds, b \in Inputs : updateCall("k1", c, b) /\ noRecord
  \/ updateComment("k1") /\ noRecord
  \/ updatePublish("k1") /\ noRecord
  \/ \E c \in CommentIds : destroyCall("k1", c) /\ noRecord
  \/ destroyDeleteComment("k1") /\ noRecord
  \/ destroyRemoveCommentFromPost("k1") /\ noRecord
  \/ destroyGetComments("k1") /\ noRecord
  \/ removePostFromTimeline("k1") /\ noRecord
  \/ deletePostUsageInTimeline("k1") /\ noRecord
  \/ destroyStats("k1") /\ noRecord
SpecEdit == InitComment /\ [][NextEdit]_vars

\* one client creates valid comments on stored posts and destroys comments,
\* one call after the other; no call fails
NextStats ==
  \/ \E u \in Commenters, p \in StoredPosts, b \in ValidBodies :
       createCall("k1", u, p, b) /\ noRecord
  \/ createComment("k1") /\ noRecord
  \/ createFindById("k1") /\ noRecord
  \/ createAddComment("k1") /\ noRecord
  \/ createStats("k1") /\ noRecord
  \/ \E c \in CommentIds : destroyCall("k1", c) /\ noRecord
  \/ destroyDeleteComment("k1") /\ noRecord
  \/ destroyRemoveCommentFromPost("k1") /\ noRecord
  \/ destroyGetComments("k1") /\ noRecord
  \/ removePostFromTimeline("k1") /\ noRecord
  \/ deletePostUsageInTimeline("k1") /\ noRecord
  \/ destroyStats("k1") /\ noRecord
SpecStats == InitComment /\ [][NextStats]_vars

\* ------------------------------------------------------------- reads under writes
\* client k1 creates and destroys comments and posts are deleted, while
\* client k2 serves one Posts, Comments or Likes read step by step
NextRead ==
  \/ \E u \in Commenters, p \in StoredPosts, b \in ValidBodies :
       createCall("k1", u, p, b) /\ noRecord
  \/ createComment("k1") /\ noRecord
  \/ createFindById("k1") /\ noRecord
  \/ createAddComment("k1") /\ noRecord
  \/ createStats("k1") /\ noRecord
  \/ \E c \in CommentIds : destroyCall("k1", c) /\ noRecord
  \/ destroyDeleteComment("k1") /\ noRecord
  \/ destroyRemoveCommentFromPost("k1") /\ noRecord
  \/ destroyGetComments("k1") /\ noRecord
  \/ removePostFromTimeline("k1") /\ noRecord
  \/ deletePostUsageInTimeline("k1") /\ noRecord
  \/ destroyStats("k1") /\ noRecord
  \/ \E p \in PostIds : postDestroy(p)
  \/ \E viewer \in Viewers, targetUser \in Users, feedName \in ActivityNames,
        dynamic \in BOOLEAN :
       readQuery("k2", <<targetUser, feedName>>, viewer, DefaultParams,
                 Config(dynamic)) /\ noRecord
  \/ readDetails("k2") /\ noRecord
  \/ readReturn("k2") /\ noRecord
SpecRead == InitComment /\ [][NextRead]_vars

\* ------------------------------------------------------------- read claims
Served == request # NoRequest
reqOwner == request.timeline[1]
reqViewer == request.viewerId
BanRelation(a, b) == <<a, b>> \in bans \/ <<b, a>> \in bans
\* the access check passed: genericTimeline queried the store
AccessGranted == storeQuery.asked
EmptyPostList == response.posts = <<>> /\ response.timelines.posts = <<>>
ReturnsWholeFeed == /\ AccessGranted
                    /\ Range(response.timelines.posts) = feedPosts[request.timeline]
                    /\ response.posts = response.timelines.posts

\* C1: a viewer in a ban relation (either direction) with the owner of a
\* Posts, Comments or Likes timeline gets an empty post list, whatever the
\* owner's privacy and whether or not the viewer is subscribed.
C1_BannedViewerGetsNoPosts ==
  (Served /\ reqViewer \in Users /\ reqViewer # reqOwner
     /\ BanRelation(reqViewer, reqOwner))
  => EmptyPostList

C1_Witness ==
  /\ Served /\ reqViewer \in Users /\ reqViewer # reqOwner
  /\ <<reqOwner, reqViewer>> \in bans
  /\ <<reqViewer, reqOwner>> \in subs
  /\ privacy[reqOwner] = "private"
  /\ feedPosts[request.timeline] # {}
  /\ EmptyPostList

\* C2: when the access check fails the read still returns a result: its post
\* list is empty and its timelines entry carries the id, the name and the
\* owner of the requested timeline.
C2_DeniedReadKeepsIdentity ==
  (Served /\ ~AccessGranted)
  => /\ EmptyPostList
     /\ response.timelines.id = request.timeline
     /\ response.timelines.name = request.timeline[2]
     /\ response.timelines.user = reqOwner

C2_Witness ==
  /\ Served /\ ~AccessGranted
  /\ privacy[reqOwner] = "private"
  /\ reqViewer \in Users \ {reqOwner}
  /\ <<reqViewer, reqOwner>> \notin subs
  /\ ~BanRelation(reqViewer, reqOwner)
  /\ request.timeline[2] = "Posts"
  /\ feedPosts[request.timeline] # {}
  /\ response.posts = <<>>
  /\ response.timelines.user = reqOwner

\* C3: a private owner's Posts, Comments or Likes timeline returns posts to
\* a viewer other than the owner (an unauthenticated one included) only if
\* the viewer is a subscriber of the owner.
C3_PrivateOnlyForSubscribers ==
  (Served /\ privacy[reqOwner] = "private" /\ reqViewer # reqOwner
     /\ (response.posts # <<>> \/ response.timelines.posts # <<>> \/ AccessGranted))
  => reqViewer \in getUserSubscribersIds(reqOwner)

C3_Witness ==
  /\ Served /\ privacy[reqOwner] = "private" /\ reqViewer # reqOwner
  /\ reqViewer \in getUserSubscribersIds(reqOwner)
  /\ response.posts # <<>>

\* C4: a public owner is viewable by every viewer without a ban relation,
\* an unauthenticated one included; a protected owner by every authenticated
\* viewer without a ban relation and by no unauthenticated viewer; the owner
\* always views their own timeline.
C4_PublicAndProtectedAccess ==
  Served =>
    /\ (reqViewer = reqOwner) => ReturnsWholeFeed
    /\ (privacy[reqOwner] = "public" /\ reqViewer = NULL) => ReturnsWholeFeed
    /\ (privacy[reqOwner] = "protected" /\ reqViewer = NULL)
         => (~AccessGranted /\ EmptyPostList)
    /\ (privacy[reqOwner] # "private" /\ reqViewer \in Users \ {reqOwner}
          /\ ~BanRelation(reqViewer, reqOwner)) => ReturnsWholeFeed

C4_Witness ==
  /\ Served /\ privacy[reqOwner] = "protected"
  /\ reqViewer = NULL
  /\ feedPosts[request.timeline] # {}
  /\ ~AccessGranted /\ EmptyPostList

\* C5: with access, genericTimeline asks the store for limit + 1 ids, returns
\* the first min(limit, n) of the n ids the store returned, in the store's
\* order, and reports isLastPage exactly when n <= limit (limit = 0 included).
C5_Pagination ==
  (Served /\ AccessGranted) =>
    LET L == request.limit
        n == storeQuery.n
    IN /\ storeQuery.limit = L + 1
       /\ storeQuery.offset = request.offset
       /\ response.timelines.posts = SubSeq(storeQuery.reply, 1, Min(L, n))
       /\ response.posts = response.timelines.posts
       /\ response.isLastPage = (n <= L)
       /\ (Cardinality(feedPosts[request.timeline]) - request.offset >= L + 1)
            => ~response.isLastPage
       /\ (Cardinality(feedPosts[request.timeline]) - request.offset = L)
            => response.isLastPage

C5_Witness ==
  /\ Served /\ AccessGranted
  /\ request.limit = 1 /\ request.offset = 1
  /\ storeQuery.n = 2
  /\ Len(response.posts) = 1
  /\ ~response.isLastPage

\* ------------------------------------------------------------- comment claims
Member(u, p) == p \in feedPosts[CommentsTimeline(u)]
\* u has a comment in the comment list of p
HasCommentOn(u, p) ==
  \E c \in CommentIds : c \in postComments[p] /\ comments[c].userId = u
Returned(k, op) == pc[k] = "done" /\ self[k].op = op
Threw(k, op) == pc[k] = "failed" /\ self[k].op = op
\* s has another reason than a comment of u to hold p in its RiverOfNews
Justified(s, u, p) ==
  \/ s = postAuthor[p]
  \/ <<s, postAuthor[p]>> \in subs
  \/ \E c \in postComments[p] :
       comments[c].userId \in Users \ {u} /\ <<s, comments[c].userId>> \in subs

\* C6: Comment.create is all-or-nothing: once a create has thrown, the
\* persisted comments, memberships and counters equal those before the call.
C6_CreateAllOrNothing ==
  \A k \in Clients : Threw(k, "create") => persisted = before[k]

\* C7: the comments counter changes in the same atomic step as the fan-out:
\* no step changes a user's Comments timeline without changing that user's
\* counter.
C7_StatsInFanoutStep ==
  [][\A u \in Users :
       feedPosts'[CommentsTimeline(u)] # feedPosts[CommentsTimeline(u)]
         => stats'[u] # stats[u]]_vars

\* C8: a create and a destroy (of another comment) by the same user on the
\* same post are serialized: once both have returned, the post is in the
\* user's Comments timeline iff the user still has a comment on the post.
C8_CreateDestroySerialized ==
  \A k \in Clients, j \in Clients :
    (Returned(k, "create") /\ Returned(j, "destroy")
       /\ self[k].userId = self[j].userId /\ self[k].postId = self[j].postId
       /\ self[k].id # self[j].id)
    => (Member(self[k].userId, self[k].postId)
          <=> HasCommentOn(self[k].userId, self[k].postId))

\* C9: a destroy that removes the last comment of U on P retracts P from U's
\* Comments timeline and from the RiverOfNews of every subscriber of U that
\* held P only because of U's comment; with another comment of U left on P
\* no membership is retracted.
C9_DestroyRetractsBumps ==
  \A k \in Clients :
    (Returned(k, "destroy") /\ before[k].taken
       /\ self[k].id \in before[k].postComments[self[k].postId])
    => LET u == self[k].userId
           p == self[k].postId
       IN IF HasCommentOn(u, p)
          THEN feedPosts = before[k].feedPosts
          ELSE /\ ~Member(u, p)
               /\ \A s \in getUserSubscribersIds(u) :
                    ~Justified(s, u, p) => p \notin feedPosts[RiverOfNews(s)]

\* C10 (as claimed): after a comment of U on P is created and then
\* destroyed, P's membership in U's Comments timeline is what it was before
\* the create iff U has no other comment on P.
C10_RestoredIffNoOtherComment ==
  \A k \in Clients :
    (pc[k] = "done" /\ lastOp[k].kind = "roundtrip")
    => ((Member(lastOp[k].userId, lastOp[k].postId) <=> lastOp[k].pre)
          <=> ~HasCommentOn(lastOp[k].userId, lastOp[k].postId))

\* C10 (amended): after a comment of U on P is created and then destroyed,
\* P is in U's Comments timeline iff U has another comment on P; so the
\* membership is what it was before the create, with or without another
\* comment, whenever it agreed with U's comments on P then.
C10_RoundTripKeepsIffOtherComment ==
  \A k \in Clients :
    (pc[k] = "done" /\ lastOp[k].kind = "roundtrip")
    => LET u == lastOp[k].userId
           p == lastOp[k].postId
       IN /\ Member(u, p) <=> HasCommentOn(u, p)
          /\ (lastOp[k].pre <=> HasCommentOn(u, p))
               => (Member(u, p) <=> lastOp[k].pre)

C10_Witness ==
  \E k \in Clients :
    /\ pc[k] = "done" /\ lastOp[k].kind = "roundtrip"
    /\ HasCommentOn(lastOp[k].userId, lastOp[k].postId)
    /\ lastOp[k].pre
    /\ Member(lastOp[k].userId, lastOp[k].postId)

\* ------------------------------------------------------------- edit claims
Quiescent == {"idle", "done", "failed"}
Notified(kind, c) == <<kind, c>> \in published' /\ <<kind, c>> \notin published
\* the comment is invalid: empty body after trimming, or no user, or no post
InvalidComment(c) == c.body = "" \/ c.userId = NULL \/ c.postId = 0

\* C11: a comment notification is handed to pub/sub only after the store
\* mutation of its event has been applied: a deletion notification only for
\* a comment that is deleted and detached from its post, an update
\* notification only when the stored body is the updated one.
C11_NotifyAfterMutation ==
  [][\A c \in CommentIds :
       /\ Notified("destroyComment", c)
            => /\ comments[c] = NoComment
               /\ \A p \in PostIds : c \notin postComments[p]
       /\ Notified("updateComment", c)
            => \E k \in Clients : /\ self[k].op = "update" /\ self[k].id = c
                                  /\ comments[c].body = self[k].body]_vars

\* C12: a create or update call on an invalid comment fails before any side
\* effect: the store (records, memberships, counters, notifications) is
\* unchanged and the Comment object keeps its updatedAt and, for update,
\* its body.
C12_InvalidRejectedWithoutEffect ==
  [][\A k \in Clients :
       (pc[k] \in Quiescent /\ self'[k].op \in {"create", "update"}
          /\ InvalidComment(self'[k]))
       => /\ pc'[k] = "failed"
          /\ UNCHANGED storeVars
          /\ self'[k].updatedAt # "now"
          /\ self'[k].op = "update"
               => self'[k].body = comments[self'[k].id].body]_vars

\* ------------------------------------------------------------- home feed claims
InPosts(p) == p \in Range(response.timelines.posts) /\ p \in Range(response.posts)
\* A reads their own RiverOfNews in classic mode while A subscribes to B,
\* B subscribes to C, and C has liked the post p that B wrote
LikedByFollowedOfAuthor(A, p) ==
  /\ Served
  /\ request.timeline = RiverOfNews(A) /\ reqViewer = A
  /\ request.homefeedMode = HOMEFEED_MODE_CLASSIC
  /\ \E B \in Users \ {A} : \E C \in Users \ {A, B} :
       /\ <<A, B>> \in subs /\ <<B, C>> \in subs
       /\ postAuthor[p] = B /\ p \in feedPosts[PostsTimeline(B)]
       /\ p \in feedPosts[LikesTimeline(C)]

\* C13 (as claimed): A subscribes to B, B subscribes to C, C likes a post
\* written by B; A's RiverOfNews read in classic mode does not include it.
C13_LikedPostNotInRiver ==
  \A A \in Users, p \in PostIds :
    LikedByFollowedOfAuthor(A, p)
      => (p \notin Range(response.timelines.posts) /\ p \notin Range(response.posts))

\* C13 (amended): in that scenario A's RiverOfNews read in classic mode
\* includes the post, because A subscribes to the Posts timeline of its
\* author B; the like of C is not what brings it there.
C13_AuthorsPostInRiver ==
  \A A \in Users, p \in PostIds : LikedByFollowedOfAuthor(A, p) => InPosts(p)

C13_Witness ==
  /\ LikedByFollowedOfAuthor("luna", 1)
  /\ request.dynamicRiverOfNews
  /\ subs = {<<"luna", "mars">>, <<"mars", "zeus">>}
  /\ 1 \notin feedPosts[LikesTimeline("luna")]
  /\ InPosts(1)

Sources(timelineIds, activityFeedIds, authorsIds) ==
  /\ storeQuery.timelineIds = timelineIds
  /\ storeQuery.activityFeedIds = activityFeedIds
  /\ storeQuery.authorsIds = authorsIds
Followed(v) == {u \in Users : <<v, u>> \in subs}
Destinations(v) == {PostsTimeline(u) : u \in Followed(v)}
Activities(v) == {CommentsTimeline(u) : u \in Followed(v)}
                   \cup {LikesTimeline(u) : u \in Followed(v)}
Friends(v) == {u \in Followed(v) : <<u, v>> \in subs}
RiverSources ==
  IF request.homefeedMode = "friends-only"
  THEN Sources(Destinations(reqViewer), {}, {})
  ELSE IF request.homefeedMode = "classic"
  THEN Sources(Destinations(reqViewer), Activities(reqViewer), {})
  ELSE Sources(Destinations(reqViewer) \cup Activities(reqViewer), {},
               Friends(reqViewer) \cup {reqViewer})
OtherSources ==
  IF request.timeline[2] = "MyDiscussions"
  THEN Sources({CommentsTimeline(reqOwner), LikesTimeline(reqOwner)}, {},
               IF request.withMyPosts THEN {reqViewer} ELSE {})
  ELSE Sources({request.timeline}, {}, {})

\* C14 (as claimed): Posts, Comments and Likes query the timeline itself;
\* MyDiscussions the owner's Comments and Likes timelines, with the viewer
\* as author only when withMyPosts is set; RiverOfNews the viewer's
\* subscriptions as the homefeed mode says; withMyPosts changes nothing for
\* the other feeds.
C14_SourceResolution ==
  (Served /\ AccessGranted)
  => IF request.timeline[2] = "RiverOfNews" THEN RiverSources ELSE OtherSources

\* C14 (amended): the same, except that RiverOfNews is resolved to the
\* viewer's subscriptions only when config.dynamicRiverOfNews is set;
\* without it RiverOfNews queries the timeline itself, whatever the mode.
C14_SourceResolutionByConfig ==
  (Served /\ AccessGranted)
  => IF request.timeline[2] = "RiverOfNews" /\ request.dynamicRiverOfNews
     THEN RiverSources ELSE OtherSources

C14_Witness ==
  /\ Served /\ AccessGranted
  /\ request.timeline[2] = "RiverOfNews" /\ request.dynamicRiverOfNews
  /\ request.homefeedMode = "friends-all-activity"
  /\ request.withMyPosts
  /\ Friends(reqViewer) # {}
  /\ Cardinality(storeQuery.timelineIds) = 3
  /\ Cardinality(storeQuery.authorsIds) = 2

\* ------------------------------------------------------------- parameter claims
RECURSIVE Decimal(_, _, _)
\* the number the digits s[from..to] write
Decimal(s, from, to) ==
  IF to < from THEN 0 ELSE DigitVal(s[to]) + 10 * Decimal(s, from, to - 1)
Signed(s) == Len(s) >= 1 /\ s[1] = "-"
FirstDigit(s) == IF Signed(s) THEN 2 ELSE 1
Sign(s) == IF Signed(s) THEN -1 ELSE 1
\* the value is a decimal integer and nothing else
IsNumber(v) ==
  /\ v.given /\ FirstDigit(v.text) <= Len(v.text)
  /\ \A i \in FirstDigit(v.text)..Len(v.text) : v.text[i] \in DigitChars
NumberOf(v) == Sign(v.text) * Decimal(v.text, FirstDigit(v.text), Len(v.text))
\* the value begins with a decimal integer, whatever follows it
LastLeadingDigit(s) ==
  CHOOSE j \in (FirstDigit(s) - 1)..Len(s) :
    /\ \A i \in FirstDigit(s)..j : s[i] \in DigitChars
    /\ j = Len(s) \/ s[j + 1] \notin DigitChars
HasLeadingInt(v) == v.given /\ LastLeadingDigit(v.text) >= FirstDigit(v.text)
LeadingInt(v) ==
  Sign(v.text) * Decimal(v.text, FirstDigit(v.text), LastLeadingDigit(v.text))

ParamsInDomain ==
  /\ commonParams.limit \in 0..MAX_LIMIT
  /\ commonParams.offset >= 0
  /\ commonParams.sort \in {ORD_CREATED, ORD_UPDATED}
  /\ commonParams.homefeedMode \in HomefeedModes
KnownOrDefault ==
  /\ commonParams.sort = IF query.sort \in {"created", "bumped"} THEN query.sort
                         ELSE "bumped"
  /\ commonParams.homefeedMode = IF query.homefeedMode \in HomefeedModes
                                 THEN query.homefeedMode ELSE "classic"

\* C15 (as claimed): getCommonParams yields limit in [0,120], offset >= 0,
\* sort in {created, bumped} and a known homefeed mode; a value in its
\* domain is kept, and a missing, non-numeric, out-of-range or unknown
\* value is replaced by the default (30, 0, bumped, classic), not clamped.
C15_DefaultForNonNumeric ==
  commonParams.parsed =>
    /\ ParamsInDomain
    /\ KnownOrDefault
    /\ commonParams.limit =
         IF IsNumber(query.limit) /\ NumberOf(query.limit) \in 0..MAX_LIMIT
         THEN NumberOf(query.limit) ELSE DEFAULT_LIMIT
    /\ commonParams.offset =
         IF IsNumber(query.offset) /\ NumberOf(query.offset) >= 0
         THEN NumberOf(query.offset) ELSE DEFAULT_OFFSET

\* C15 (amended): the same, where the number of a limit or offset value is
\* its leading decimal integer (an optional sign and the digits after it,
\* later characters ignored): a value whose leading integer is in the domain
\* yields that integer; a missing value, a value without a leading integer
\* and one whose leading integer is out of range yield the default.
C15_DefaultForNoLeadingInt ==
  commonParams.parsed =>
    /\ ParamsInDomain
    /\ KnownOrDefault
    /\ commonParams.limit =
         IF HasLeadingInt(query.limit) /\ LeadingInt(query.limit) \in 0..MAX_LIMIT
         THEN LeadingInt(query.limit) ELSE DEFAULT_LIMIT
    /\ commonParams.offset =
         IF HasLeadingInt(query.offset) /\ LeadingInt(query.offset) >= 0
         THEN LeadingInt(query.offset) ELSE DEFAULT_OFFSET

C15_Witness ==
  /\ commonParams.parsed
  /\ query.limit = Given(<<"1", "3", "x">>)
  /\ query.offset = query.limit
  /\ query.homefeedMode = "unknown"
  /\ query.sort = "updated"
  /\ commonParams.limit = 13 /\ commonParams.offset = 13
  /\ commonParams.homefeedMode = "classic" /\ commonParams.sort = "bumped"

\* ------------------------------------------------------------- fan-out claims
TimelinesOf(p) == {f \in Feeds : p \in feedPosts[f]}

\* C16: after any post creations and subscriptions (no bans) every post of
\* a user's Posts timeline is in the author's Posts timeline, in the
\* author's RiverOfNews and in the RiverOfNews of every subscriber of the
\* author, later subscribers included; a post of an author without
\* subscribers is in exactly two timelines.
C16_PostsReachSubscribers ==
  \A u \in Users : \A p \in feedPosts[PostsTimeline(u)] :
    /\ postAuthor[p] = u
    /\ p \in feedPosts[RiverOfNews(u)]
    /\ \A x \in Users : <<x, u>> \in subs => p \in feedPosts[RiverOfNews(x)]
    /\ (\A x \in Users : <<x, u>> \notin subs)
         => /\ TimelinesOf(p) = {PostsTimeline(u), RiverOfNews(u)}
            /\ Cardinality(postUsage[p]) = 2

C16_Witness ==
  /\ subs = {<<"luna", "mars">>}
  /\ postAuthor[1] = "mars" /\ postAuthor[2] = "zeus" /\ postAuthor[3] = "mars"
  /\ Cardinality(TimelinesOf(1)) = 3 /\ Cardinality(TimelinesOf(3)) = 3
  /\ {1, 3} \subseteq feedPosts[RiverOfNews("luna")]
  /\ Cardinality(postUsage[2]) = 2

\* A has commented on p (a create has returned) or liked it
Activity(A, p) ==
  \/ \E k \in Clients :
       Returned(k, "create") /\ self[k].userId = A /\ self[k].postId = p
  \/ p \in feedPosts[LikesTimeline(A)]

\* C17: when A, a subscriber of B, has commented on or liked a post p of B,
\* p is in the RiverOfNews of every subscriber C of A, subscribed to B or
\* not, unless a ban relation of C with A or with B blocks it.
C17_ActivityReachesSubscribers ==
  \A A \in Users, p \in PostIds :
    (postAuthor[p] # NULL /\ <<A, postAuthor[p]>> \in subs /\ Activity(A, p))
    => \A C \in Users :
         (<<C, A>> \in subs /\ ~BanRelation(C, A) /\ ~BanRelation(C, postAuthor[p]))
         => p \in feedPosts[RiverOfNews(C)]

C17_Witness ==
  /\ subs = {<<"luna", "mars">>, <<"zeus", "luna">>}
  /\ Returned("k1", "create") /\ self["k1"].userId = "luna" /\ self["k1"].postId = 1
  /\ 1 \notin feedPosts[LikesTimeline("luna")]
  /\ <<"zeus", "mars">> \notin subs
  /\ 1 \in feedPosts[RiverOfNews("zeus")]

\* ------------------------------------------------------------- counter and index claims
CommentsOf(u) == {c \in CommentIds : comments[c] # NoComment /\ comments[c].userId = u}
NoCallRunning == \A k \in Clients : pc[k] \in {"idle", "done"}

\* C18: when every create and destroy has completed, and none has failed,
\* the comments counter of each user is the number of that user's comments
\* that exist.
C18_CounterCountsComments ==
  NoCallRunning => \A u \in Users : stats[u] = Cardinality(CommentsOf(u))

\* C19: once a destroy has returned or failed, the two directions of the
\* post-timeline index agree: a timeline contains post p iff p lists that
\* timeline.
C19_IndexDirectionsAgree ==
  \A k \in Clients :
    (pc[k] \in {"done", "failed"} /\ self[k].op = "destroy")
    => \A f \in Feeds, p \in PostIds : p \in feedPosts[f] <=> f \in postUsage[p]

\* C20: a feed read is one logical transaction: the id list timelines.posts
\* and the posts array of every response describe the same posts in the
\* same order, whatever is written between the store calls of the read.
C20_ReadIsOneTransaction ==
  \A k \in Clients :
    Returned(k, "read") => response.posts = response.timelines.posts

\* ------------------------------------------------------------- denied reads
Denied == Served /\ ~AccessGranted
\* every list of the response is empty and its users are the owner alone
RevealsNoList ==
  /\ response.posts = <<>> /\ response.comments = {}
  /\ response.subscribers = {} /\ response.subscriptions = {}
  /\ response.admins = {} /\ response.timelines.subscribers = {}
  /\ response.timelines.posts = <<>>
  /\ response.isLastPage
  /\ \A u \in response.users : u.id = reqOwner

\* C21: when the access check fails the response reveals nothing beyond the
\* identity of the timeline: posts, comments, subscribers, subscriptions,
\* admins and timelines.subscribers are empty, isLastPage is true and users
\* holds no user other than the owner; and the same denied request served
\* from two store states that differ in the posts, subscribers and group
\* administrators of the owner gets the same response.
C21_DeniedRevealsNothing ==
  /\ [](Denied => RevealsNoList)
  /\ [][(Denied /\ Denied' /\ request' = request) => response' = response]_vars

\* ------------------------------------------------------------- bestOf claims
BestServed == self["k1"].op = "bestOf"
BestLimit == request.limit
BestOffset == request.offset

\* C22: for every limit and offset query value bestOf serves the request
\* without a failure, with a positive limit and a non-negative offset; it
\* returns at most limit posts, and isLastPage is true exactly when the store
\* returned at most limit posts to a query for limit + 1.
C22_BestOfBounds ==
  BestServed
  => /\ pc["k1"] = "done"
     /\ BestLimit > 0 /\ BestOffset >= 0
     /\ storeQuery.limit = BestLimit + 1
     /\ Len(response.posts) <= BestLimit
     /\ response.isLastPage <=> (storeQuery.n <= BestLimit)

====
